---- MODULE Spec2Model ----
(***************************************************************************)
(* A model of backend/main.py (src/main1.py): the register and login       *)
(* handlers against the MySQL users table, the chatbot endpoint with its   *)
(* optional intent classifier, and the media upload handler.               *)
(*                                                                         *)
(* Each request handler is split at its interactions with the outside      *)
(* world (the database server, the file system): what a handler does       *)
(* between two such interactions is local to the request and is one step.  *)
(***************************************************************************)
EXTENDS Integers, Sequences, FiniteSets, TLC

VARIABLES
    users,        \* the committed rows of table users
    pending,      \* per request: the row its open transaction has inserted
    conn,         \* per request: its connection, "none" | "open" | "closed"
    req,          \* per request: the handler's locals, position and response
    faults,       \* store failures that have happened so far
    registered,   \* history: the (username, password) of every successful register
    vectorizer,   \* module global, "None" when not loaded
    model,        \* module global, "None" when not loaded
    artifacts,    \* which of the two .pkl files exist at startup
    chatLog,      \* the chatbot requests served, with their responses
    uploads_dir,  \* UPLOADS_DIR: file name -> whether it exists, and its bytes
    upl,          \* per upload request: its file, position and write offset
    lastWriter    \* history: per file name, the upload that wrote last (0: none)

authVars == <<users, pending, conn, req, faults, registered>>
chatVars == <<vectorizer, model, artifacts, chatLog>>
uploadVars == <<uploads_dir, upl, lastWriter>>
vars == <<users, pending, conn, req, faults, registered,
          vectorizer, model, artifacts, chatLog, uploads_dir, upl, lastWriter>>

(***************************************************************************)
(* Bounds of the model.                                                    *)
(***************************************************************************)
NumRequests == 2
MaxFaults == 1
MaxChats == 2
NumUploads == 2
MaxBodyLen == 2

Requests == 1..NumRequests
Usernames == {"alice", "bob"}

(***************************************************************************)
(* Passwords.  pwd_context is CryptContext(schemes=["bcrypt"]): bcrypt     *)
(* reads the first 72 bytes of the password and passlib truncates a longer *)
(* one silently (truncate_error is off by default).  A password is         *)
(* therefore modelled by its first 72 bytes and by what follows them;      *)
(* "P72" stands for some string of exactly 72 bytes.                       *)
(***************************************************************************)
Passwords ==
    { [first72 |-> "pw1", rest |-> ""],
      [first72 |-> "P72", rest |-> "a"],
      [first72 |-> "P72", rest |-> "b"] }

NoPassword == [first72 |-> "", rest |-> ""]
NoHash == [salt |-> 0, key |-> ""]
NoRow == [username |-> "", password_hash |-> NoHash]

\* A mutant of hash_password: the whole password is the key.
hash_password_whole(password, salt) ==
    [salt |-> salt, key |-> <<password.first72, password.rest>>]

\* hash_password: a bcrypt hash is its salt and the digest of (salt, first 72
\* bytes); the digest is one-way and is modelled by the pair itself.
hash_password(password, salt) ==
    [salt |-> salt, key |-> password.first72]

\* A mutant of verify_password: every password verifies.
verify_password_always(plain_password, hashed_password) ==
    TRUE

\* verify_password: recompute the hash under the stored salt and compare.
verify_password(plain_password, hashed_password) ==
    hash_password(plain_password, hashed_password.salt) = hashed_password

(***************************************************************************)
(* The store.  The table definition is not part of main.py; the schema is  *)
(* users(username unique, password_hash).                                  *)
(***************************************************************************)
\* A mutant of the schema: no unique key on username.
NoUniqueKey == FALSE

UsernameIsUnique == TRUE

\* SELECT * FROM users WHERE username = %s (committed rows only).
SelectUser(username) == {row \in users : row.username = username}

\* INSERT under the unique key: a committed row with this username is a
\* duplicate-key error (MySQL 1062).
DuplicateKey(username) ==
    UsernameIsUnique /\ SelectUser(username) # {}

\* INSERT under the unique key waits while another open transaction holds an
\* uncommitted row with the same username.
LockWait(r, username) ==
    UsernameIsUnique /\ \E q \in Requests \ {r} : pending[q].username = username

\* A mutant of commit: the insert is durable whether or not commit succeeds
\* (as with autocommit on, where rollback undoes nothing).
commit_autocommit(rows, row, ok) ==
    rows \cup {row}

\* conn.commit() on success makes the transaction's row durable; when it
\* raises, conn.rollback() discards the row.
commit(rows, row, ok) ==
    IF ok THEN rows \cup {row} ELSE rows

\* A store call either works or raises mysql.connector.Error; at most
\* MaxFaults calls fail in one behaviour.
StoreOutcomes == {ok \in BOOLEAN : ok \/ faults < MaxFaults}
Fault(ok) == IF ok THEN faults ELSE faults + 1

(***************************************************************************)
(* Requests.  Request numbers are given in order of arrival.               *)
(***************************************************************************)
IdleReq ==
    [op |-> "", username |-> "", password |-> NoPassword, pc |-> "idle",
     status |-> 0, detail |-> "", error |-> "", db_user |-> NoRow, prior |-> {}]

Arrives(r) ==
    /\ req[r].pc = "idle"
    /\ \A q \in Requests : q < r => req[q].pc # "idle"

\* The response of request r: its status code and its detail (or message),
\* where {username} and {e} stand for req[r].username and the exception
\* req[r].error that was formatted into it.
Respond(r, status, detail, error) ==
    [req EXCEPT ![r].pc = "done", ![r].status = status,
                ![r].detail = detail, ![r].error = error]

\* The passwords with which username has been registered successfully so far.
PriorRegistered(username) ==
    {x.password : x \in {y \in registered : y.username = username}}

\* get_db_connection and the check of its result, lines 101-103 and 129-131:
\* a connection, or None and the 500 response.
Connect(r, op, u, p, up) ==
    /\ Arrives(r)
    /\ faults' = Fault(up)
    /\ LET new == [IdleReq EXCEPT !.op = op, !.username = u, !.password = p,
                              !.prior = PriorRegistered(u)]
       IN  IF up
           THEN /\ conn' = [conn EXCEPT ![r] = "open"]
                /\ req' = [req EXCEPT ![r] = [new EXCEPT !.pc = "connected"]]
           ELSE /\ conn' = conn
                /\ req' = [req EXCEPT ![r] =
                             [new EXCEPT !.pc = "done", !.status = 500,
                                         !.detail = "Database connection failed.",
                                         !.error = "connect"]]
    /\ UNCHANGED <<users, pending, registered>>

\* A mutant of the existence check: the row is never found.
UserExists_never(username) == FALSE

\* cursor.fetchone() of the existence check, line 107.
UserExists(username) == SelectUser(username) # {}

register_user_connect(r, u, p) ==
    /\ \E up \in StoreOutcomes : Connect(r, "register", u, p, up)
    /\ UNCHANGED <<chatVars, uploadVars>>

\* Lines 105-109: the existence check.  An Error raised by execute is not
\* caught by the handler: the framework answers 500 and conn.close() is not
\* reached.
register_user_select(r) ==
    /\ req[r].op = "register" /\ req[r].pc = "connected"
    /\ \E ok \in StoreOutcomes :
         /\ faults' = Fault(ok)
         /\ IF ~ok
            THEN /\ req' = Respond(r, 500, "Internal Server Error", "select")
                 /\ conn' = conn
            ELSE IF UserExists(req[r].username)
            THEN /\ req' = Respond(r, 400, "Username already exists.", "")
                 /\ conn' = [conn EXCEPT ![r] = "closed"]
            ELSE /\ req' = [req EXCEPT ![r].pc = "checked"]
                 /\ conn' = conn
    /\ UNCHANGED <<users, pending, registered, chatVars, uploadVars>>

\* Lines 111-116 and, when execute raises, 118-122: hash the password and
\* INSERT in the connection's transaction.
register_user_insert(r) ==
    /\ req[r].op = "register" /\ req[r].pc = "checked"
    /\ LET hashed_pw == hash_password(req[r].password, r)
           row == [username |-> req[r].username, password_hash |-> hashed_pw]
       IN  \E ok \in StoreOutcomes :
             /\ faults' = Fault(ok)
             /\ IF ~ok
                THEN /\ req' = Respond(r, 500, "Failed to register user: {e}", "insert error")
                     /\ conn' = [conn EXCEPT ![r] = "closed"]
                     /\ pending' = pending
                ELSE IF DuplicateKey(req[r].username)
                THEN /\ req' = Respond(r, 500, "Failed to register user: {e}", "Duplicate entry")
                     /\ conn' = [conn EXCEPT ![r] = "closed"]
                     /\ pending' = pending
                ELSE /\ ~LockWait(r, req[r].username)
                     /\ req' = [req EXCEPT ![r].pc = "inserted"]
                     /\ conn' = conn
                     /\ pending' = [pending EXCEPT ![r] = row]
    /\ UNCHANGED <<users, registered, chatVars, uploadVars>>

\* Lines 117-124: commit, or rollback when commit raises; close; respond.
register_user_commit(r) ==
    /\ req[r].op = "register" /\ req[r].pc = "inserted"
    /\ \E ok \in StoreOutcomes :
         /\ faults' = Fault(ok)
         /\ users' = commit(users, pending[r], ok)
         /\ pending' = [pending EXCEPT ![r] = NoRow]
         /\ conn' = [conn EXCEPT ![r] = "closed"]
         /\ IF ok
            THEN /\ req' = Respond(r, 200, "User '{username}' registered successfully.", "")
                 /\ registered' = registered \cup
                        {[username |-> req[r].username, password |-> req[r].password]}
            ELSE /\ req' = Respond(r, 500, "Failed to register user: {e}", "commit error")
                 /\ registered' = registered
    /\ UNCHANGED <<chatVars, uploadVars>>

login_user_connect(r, u, p) ==
    /\ \E up \in StoreOutcomes : Connect(r, "login", u, p, up)
    /\ UNCHANGED <<chatVars, uploadVars>>

\* Lines 133-141: look the user up, close, verify, respond.  An Error raised
\* by execute is not caught: 500, and conn.close() is not reached.
login_user_select(r) ==
    /\ req[r].op = "login" /\ req[r].pc = "connected"
    /\ \E ok \in StoreOutcomes :
         /\ faults' = Fault(ok)
         /\ IF ~ok
            THEN /\ req' = [Respond(r, 500, "Internal Server Error", "select")
                               EXCEPT ![r].prior = PriorRegistered(req[r].username)]
                 /\ conn' = conn
            ELSE /\ conn' = [conn EXCEPT ![r] = "closed"]
                 /\ \E db_user \in IF SelectUser(req[r].username) = {}
                                   THEN {NoRow} ELSE SelectUser(req[r].username) :
                      LET seen == [req EXCEPT
                                     ![r].db_user = db_user,
                                     ![r].prior = PriorRegistered(req[r].username)]
                      IN  IF db_user = NoRow
                             \/ ~verify_password(req[r].password, db_user.password_hash)
                          THEN req' = [seen EXCEPT ![r].pc = "done", ![r].status = 401,
                                          ![r].detail = "Invalid username or password."]
                          ELSE req' = [seen EXCEPT ![r].pc = "done", ![r].status = 200,
                                          ![r].detail = "Login successful!"]
    /\ UNCHANGED <<users, pending, registered, chatVars, uploadVars>>

AuthInit ==
    /\ users = {}
    /\ pending = [r \in Requests |-> NoRow]
    /\ conn = [r \in Requests |-> "none"]
    /\ req = [r \in Requests |-> IdleReq]
    /\ faults = 0
    /\ registered = {}

AuthStep(r) ==
    \/ \E u \in Usernames, p \in Passwords : register_user_connect(r, u, p)
    \/ register_user_select(r)
    \/ register_user_insert(r)
    \/ register_user_commit(r)
    \/ \E u \in Usernames, p \in Passwords : login_user_connect(r, u, p)
    \/ login_user_select(r)

\* One request at a time: a request arrives only when no other is in flight.
Quiescent(r) == \A q \in Requests \ {r} : req[q].pc \in {"idle", "done"}

(***************************************************************************)
(* The intent classifier and the chatbot endpoint.                         *)
(***************************************************************************)
Messages == {"hi", "bye"}
ChatHistories == {<<>>, <<[role |-> "user", parts |-> <<[text |-> "hi"]>>]>>}
Labels == {"greeting", "goodbye", "about_freaksearch", "fact_check_request",
           "unknown", "weather"}

\* What the loaded artifacts do with a text: vectorizer.transform raises, or
\* model.predict raises, or predict returns a label.  The artifacts are
\* opaque, so every outcome is possible for every text.
ClassifierOutcomes ==
    [raises : {"transform", "predict"}, label : {""}]
        \cup [raises : {""}, label : Labels]

\* Lines 66-74: joblib.load of the vectorizer, then of the model; a missing
\* file leaves both globals None.
LoadArtifacts(files) ==
    IF files.vectorizer /\ files.model
    THEN [vectorizer |-> "vectorizer", model |-> "model"]
    ELSE [vectorizer |-> "None", model |-> "None"]

ClassifierEnabled == model # "None" /\ vectorizer # "None"

\* A mutant of predict_intent_with_custom_model: no except clause.
predict_intent_propagates(text, outcome) ==
    IF ClassifierEnabled
    THEN IF outcome.raises = ""
         THEN [raised |-> FALSE, value |-> outcome.label]
         ELSE [raised |-> TRUE, value |-> ""]
    ELSE [raised |-> FALSE, value |-> "unknown"]

\* predict_intent_with_custom_model: the value returned; nothing is raised.
predict_intent_with_custom_model(text, outcome) ==
    IF ClassifierEnabled
    THEN IF outcome.raises = ""
         THEN [raised |-> FALSE, value |-> outcome.label]
         ELSE [raised |-> FALSE, value |-> "unknown"]
    ELSE [raised |-> FALSE, value |-> "unknown"]

\* A mutant of the mapping: the goodbye branch is missing.
bot_response_no_goodbye(intent) ==
    CASE intent = "greeting" -> "Hello there! How can I assist you today?"
      [] intent = "about_freaksearch" -> "FreakSearch is a platform for verified information."
      [] intent = "fact_check_request" -> "My fact-checking capabilities are currently offline."
      [] OTHER -> "I'm sorry, I don't understand that yet. Can you please rephrase?"

\* Lines 158-168: the if/elif chain of handle_chat.
bot_response(intent) ==
    IF intent = "greeting"
    THEN "Hello there! How can I assist you today?"
    ELSE IF intent = "goodbye"
    THEN "Goodbye! Have a great day."
    ELSE IF intent = "about_freaksearch"
    THEN "FreakSearch is a platform for verified information."
    ELSE IF intent = "fact_check_request"
    THEN "My fact-checking capabilities are currently offline."
    ELSE "I'm sorry, I don't understand that yet. Can you please rephrase?"

\* handle_chat: classify request.message, map the intent, answer 200.  An
\* exception leaving the handler would be answered 500 by the framework.
handle_chat(message, chatHistory, outcome) ==
    /\ Len(chatLog) < MaxChats
    /\ LET intent == predict_intent_with_custom_model(message, outcome)
           entry == [message |-> message, chatHistory |-> chatHistory,
                     enabled |-> ClassifierEnabled,
                     failure |-> IF ClassifierEnabled THEN outcome.raises ELSE "",
                     intent |-> intent.value,
                     status |-> IF intent.raised THEN 500 ELSE 200,
                     text |-> IF intent.raised THEN "Internal Server Error"
                              ELSE bot_response(intent.value)]
       IN  chatLog' = Append(chatLog, entry)
    /\ UNCHANGED <<vectorizer, model, artifacts, authVars, uploadVars>>

ChatInit(files) ==
    /\ artifacts = files
    /\ vectorizer = LoadArtifacts(files).vectorizer
    /\ model = LoadArtifacts(files).model
    /\ chatLog = <<>>

(***************************************************************************)
(* Uploads.  Upload numbers are given in order of arrival.                 *)
(***************************************************************************)
Uploads == 1..NumUploads
Filenames == {"a.png", "b.png"}
Bytes == {"x", "y"}
Bodies == UNION {[1..n -> Bytes] : n \in 1..MaxBodyLen}

NoFile == [exists |-> FALSE, data |-> <<>>]
IdleUpload == [filename |-> "", body |-> <<>>, pc |-> "idle"]

\* buffer.write(body) on a descriptor opened with "wb" and not written to
\* yet: the bytes go to offset 0 and what the file holds beyond them stays.
WriteAt0(data, body) ==
    body \o SubSeq(data, Len(body) + 1, Len(data))

\* Line 176: open(file_path, "wb") creates the file or truncates it.
upload_media_open(k, filename, body) ==
    /\ upl[k].pc = "idle"
    /\ \A j \in Uploads : j < k => upl[j].pc # "idle"
    /\ upl' = [upl EXCEPT ![k] = [filename |-> filename, body |-> body, pc |-> "opened"]]
    /\ uploads_dir' = [uploads_dir EXCEPT ![filename] = [exists |-> TRUE, data |-> <<>>]]
    /\ UNCHANGED <<lastWriter, authVars, chatVars>>

\* Lines 177-178: after await file.read() returns the body, write it, close
\* the file and respond.
upload_media_write(k) ==
    /\ upl[k].pc = "opened"
    /\ uploads_dir' = [uploads_dir EXCEPT ![upl[k].filename].data =
                          WriteAt0(@, upl[k].body)]
    /\ upl' = [upl EXCEPT ![k].pc = "done"]
    /\ lastWriter' = [lastWriter EXCEPT ![upl[k].filename] = k]
    /\ UNCHANGED <<authVars, chatVars>>

UploadInit ==
    /\ uploads_dir = [f \in Filenames |-> NoFile]
    /\ upl = [k \in Uploads |-> IdleUpload]
    /\ lastWriter = [f \in Filenames |-> 0]

(***************************************************************************)
(* Specifications.                                                         *)
(***************************************************************************)
AllFiles == [vectorizer |-> TRUE, model |-> TRUE]

\* Requests to /api/register and /api/login, arbitrarily interleaved.
Init == AuthInit /\ ChatInit(AllFiles) /\ UploadInit

Next == \E r \in Requests : AuthStep(r)

Spec == Init /\ [][Next]_vars

\* The same requests, served one after the other.
SeqNext ==
    \E r \in Requests :
        \/ \E u \in Usernames, p \in Passwords :
              Quiescent(r) /\ register_user_connect(r, u, p)
        \/ Quiescent(r) /\ register_user_select(r)
        \/ Quiescent(r) /\ register_user_insert(r)
        \/ Quiescent(r) /\ register_user_commit(r)
        \/ \E u \in Usernames, p \in Passwords :
              Quiescent(r) /\ login_user_connect(r, u, p)
        \/ Quiescent(r) /\ login_user_select(r)

SeqSpec == Init /\ [][SeqNext]_vars

\* Requests to /api/chatbot, for every combination of artifacts on disk.
ChatSpecInit ==
    /\ AuthInit /\ UploadInit
    /\ \E files \in [vectorizer : BOOLEAN, model : BOOLEAN] : ChatInit(files)

ChatNext ==
    \E message \in Messages, chatHistory \in ChatHistories,
       outcome \in ClassifierOutcomes :
         handle_chat(message, chatHistory, outcome)

ChatSpec == ChatSpecInit /\ [][ChatNext]_vars

\* Requests to /api/upload-media, arbitrarily interleaved.
UploadNext ==
    \E k \in Uploads :
        \/ \E filename \in Filenames, body \in Bodies :
              upload_media_open(k, filename, body)
        \/ upload_media_write(k)

UploadSpec == Init /\ [][UploadNext]_vars

(***************************************************************************)
(* The claims.                                                             *)
(***************************************************************************)
StoreErrors == {"connect", "select", "insert error", "commit error"}
Done(r, op) == req[r].op = op /\ req[r].pc = "done"

\* C1: register(u, p1) and then register(u, p2), run one after the other
\* against a store that works and held no row for u: the first returns the
\* success message, the second fails with 400 "Username already exists.",
\* and the table then holds exactly one row for u, with the hash of p1.
C1_RegisterTwice ==
    \A r1 \in Requests, r2 \in Requests :
        ( /\ r1 < r2
          /\ Done(r1, "register") /\ Done(r2, "register")
          /\ req[r1].username = req[r2].username
          /\ req[r1].error \notin StoreErrors /\ req[r2].error \notin StoreErrors
          /\ \A q \in Requests :
                q < r1 => ~(req[q].op = "register" /\ req[q].status = 200
                            /\ req[q].username = req[r1].username) )
        => /\ req[r1].status = 200
           /\ req[r1].detail = "User '{username}' registered successfully."
           /\ req[r2].status = 400
           /\ req[r2].detail = "Username already exists."
           /\ Cardinality(SelectUser(req[r1].username)) = 1
           /\ \A row \in SelectUser(req[r1].username) :
                 /\ row.password_hash.salt = r1
                 /\ row.password_hash.key = req[r1].password.first72

C1_Witness ==
    \E r1 \in Requests, r2 \in Requests :
        /\ r1 < r2
        /\ Done(r1, "register") /\ Done(r2, "register")
        /\ req[r1].username = req[r2].username
        /\ req[r1].password # req[r2].password
        /\ req[r1].status = 200 /\ req[r2].status = 400

C3_LoginTwoOutcomes ==
    \A r \in Requests :
        Done(r, "login") =>
            \/ req[r].status = 200 /\ req[r].detail = "Login successful!"
            \/ req[r].status = 401 /\ req[r].detail = "Invalid username or password."

\* C3 as amended: every login ends in 200 "Login successful!", in 401
\* "Invalid username or password.", or in 500 when the connection could not
\* be made or the lookup raised; and whenever the lookup completes, a login
\* for an absent user or with a password that does not match the stored
\* hash ends in 401.
C3_LoginOutcomes ==
    \A r \in Requests :
        Done(r, "login") =>
            /\ \/ req[r].status = 200 /\ req[r].detail = "Login successful!"
               \/ req[r].status = 401 /\ req[r].detail = "Invalid username or password."
               \/ req[r].status = 500 /\ req[r].error \in {"connect", "select"}
            /\ ( /\ req[r].error \notin StoreErrors
                 /\ \/ req[r].db_user = NoRow
                    \/ req[r].db_user.password_hash.key # req[r].password.first72 )
               => req[r].status = 401

C3_Witness ==
    \E r \in Requests :
        /\ Done(r, "login") /\ req[r].status = 401
        /\ req[r].db_user # NoRow
        /\ req[r].db_user.password_hash.key # req[r].password.first72

\* C4: in every state reached by interleaved register requests the table
\* holds at most one row per username.
C4_UniqueUsername ==
    \A a \in users, b \in users : a.username = b.username => a = b

C4_Witness ==
    \E r1 \in Requests, r2 \in Requests :
        /\ Done(r1, "register") /\ Done(r2, "register")
        /\ req[r1].username = req[r2].username
        /\ req[r1].status = 200
        /\ req[r2].error = "Duplicate entry"

\* C5: a register request that creates no row because its username is
\* already in the table fails with 400 "Username already exists.", also
\* when it lost the race between its existence check and its insert.
C5_DuplicateIsConflict ==
    \A r \in Requests :
        ( /\ Done(r, "register")
          /\ req[r].status # 200
          /\ req[r].error \notin StoreErrors )
        => req[r].status = 400 /\ req[r].detail = "Username already exists."

\* C6: a step in which a register request ends in failure leaves the table
\* as it was, a step in which it ends in success adds exactly one row (its
\* username with the hash of its password), and no other step of a request
\* changes the table.
C6_AllOrNothing ==
    [][\A r \in Requests :
          /\ ( req[r].pc # "done" /\ req'[r].pc = "done"
               /\ req'[r].op = "register" /\ req'[r].status # 200 )
             => users' = users
          /\ ( req[r].pc # "done" /\ req'[r].pc = "done"
               /\ req'[r].op = "register" /\ req'[r].status = 200 )
             => \E row \in users' \ users :
                   /\ users' = users \cup {row}
                   /\ row.username = req'[r].username
                   /\ row.password_hash.key = req'[r].password.first72
          /\ (req'[r] # req[r] /\ req'[r].pc # "done") => users' = users
      ]_vars

C6_Witness ==
    \E r \in Requests, q \in Requests :
        /\ Done(r, "register") /\ req[r].error = "commit error"
        /\ Done(q, "register") /\ req[q].status = 200
        /\ Cardinality(users) = 1

\* C7: with either artifact missing both globals are unset and every text
\* is classified "unknown"; with the classifier loaded a failure of
\* vectorization or prediction is classified "unknown" too; in both cases
\* the chat endpoint answers 200 with the fallback text.
C7_ClassifierDegrades ==
    /\ (~artifacts.vectorizer \/ ~artifacts.model)
          => vectorizer = "None" /\ model = "None"
    /\ \A i \in 1..Len(chatLog) :
          ( \/ ~artifacts.vectorizer \/ ~artifacts.model
            \/ chatLog[i].failure # "" )
          => /\ chatLog[i].intent = "unknown"
             /\ chatLog[i].status = 200
             /\ chatLog[i].text =
                  "I'm sorry, I don't understand that yet. Can you please rephrase?"

C7_Witness ==
    \E i \in 1..Len(chatLog), j \in 1..Len(chatLog) :
        /\ chatLog[i].enabled /\ chatLog[i].failure = "transform"
        /\ chatLog[j].enabled /\ chatLog[j].failure = "predict"

\* C8: the reply is a function of the intent label alone: each of the four
\* known labels has its fixed string, every other label has the fallback
\* string, and two requests with the same intent get the same reply whatever
\* their chatHistory and whatever came before.
C8_ResponseMapping ==
    /\ \A i \in 1..Len(chatLog) :
          /\ chatLog[i].status = 200
          /\ chatLog[i].intent = "greeting"
                => chatLog[i].text = "Hello there! How can I assist you today?"
          /\ chatLog[i].intent = "goodbye"
                => chatLog[i].text = "Goodbye! Have a great day."
          /\ chatLog[i].intent = "about_freaksearch"
                => chatLog[i].text = "FreakSearch is a platform for verified information."
          /\ chatLog[i].intent = "fact_check_request"
                => chatLog[i].text = "My fact-checking capabilities are currently offline."
          /\ chatLog[i].intent \notin
                {"greeting", "goodbye", "about_freaksearch", "fact_check_request"}
                => chatLog[i].text =
                     "I'm sorry, I don't understand that yet. Can you please rephrase?"
    /\ \A i \in 1..Len(chatLog), j \in 1..Len(chatLog) :
          chatLog[i].intent = chatLog[j].intent => chatLog[i].text = chatLog[j].text

C8_Witness ==
    \E i \in 1..Len(chatLog), j \in 1..Len(chatLog) :
        /\ i < j
        /\ chatLog[i].intent = "goodbye" /\ chatLog[j].intent = "goodbye"
        /\ chatLog[i].chatHistory # chatLog[j].chatHistory
        /\ chatLog[i].message # chatLog[j].message

\* C9: once every upload of a file name has returned, the stored file holds
\* exactly the bytes of the upload that wrote last.
C9_LastWriteWins ==
    \A f \in Filenames :
        ( /\ lastWriter[f] # 0
          /\ \A k \in Uploads : upl[k].filename = f => upl[k].pc = "done" )
        => uploads_dir[f].data = upl[lastWriter[f]].body

\* C10: the connection a register or login request opened is closed by the
\* time the request has completed, on every exit path.
C10_ConnectionsClosed ==
    \A r \in Requests : req[r].pc = "done" => conn[r] # "open"
====
